---------------------------- MODULE Spec2Model ----------------------------
(***************************************************************************)
(* A model of stone-cli's proof-to-calldata serialization                  *)
(* (src/src/serialize.rs) and of its build script's executable download    *)
(* (src/build.rs).                                                         *)
(*                                                                         *)
(* Three specifications share the module:                                  *)
(*   Spec        one call of serialize_proof on one proof file;            *)
(*   SpecScalar  the scalar path literal -> Felt252 -> decimal string;     *)
(*   SpecBuild   repeated runs of the build script's main.                 *)
(*                                                                         *)
(* Text is a sequence of one-character strings.  A JSON value is a record  *)
(* [kind, lit, items]: kind "arr" carries its elements in items, every     *)
(* other kind is a leaf whose source text is lit.                          *)
(*                                                                         *)
(* serialize.rs declares `mod vec252;` but the file is not among the       *)
(* sources: the VecFelt252 decoder is modelled from sections 4.1 and 4.2   *)
(* of the specification.  TLC's integers are 32 bits wide, so the 252-bit  *)
(* field prime is replaced by the small modulus PRIME.                     *)
(***************************************************************************)
EXTENDS Integers, Sequences, FiniteSets

\* ------------------------------------------------------------------ bounds

\* Total number of JSON nodes (arrays and leaves) in the four sections.
MaxDocNodes == 7

\* Stand-in for the field prime.
PRIME == 13

\* Longest digit run of a scalar literal in SpecScalar.
MaxLitLen == 2

\* Files listed in config.file_names, and build-script runs in SpecBuild.
NumFiles == 2

MaxRuns == 3

\* ------------------------------------------------------------- characters

DecDigits == <<"0", "1", "2", "3", "4", "5", "6", "7", "8", "9">>

HexDigits == DecDigits \o <<"a", "b", "c", "d", "e", "f">>

IsDigit(c, radix) == \E i \in 1..radix : HexDigits[i] = c

DigitValue(c) == (CHOOSE i \in 1..16 : HexDigits[i] = c) - 1

AllDigits(s, radix) == \A i \in 1..Len(s) : IsDigit(s[i], radix)

RECURSIVE ParseRadix(_, _)
ParseRadix(s, radix) ==
    IF s = <<>> THEN 0
    ELSE ParseRadix(SubSeq(s, 1, Len(s) - 1), radix) * radix + DigitValue(s[Len(s)])

\* ------------------------------------------------------------ JSON values

Leaf(k, l) == [kind |-> k, lit |-> l, items |-> <<>>]

Arr(xs) == [kind |-> "arr", lit |-> <<>>, items |-> xs]

ScalarKinds == {"num", "str"}

HasHexPrefix(l) == Len(l) >= 2 /\ l[1] = "0" /\ l[2] = "x"

\* Integer value of a scalar's text: a JSON number is decimal, a string is
\* hexadecimal after "0x" and decimal otherwise.
LiteralValue(k, l) ==
    IF k = "str" /\ HasHexPrefix(l)
    THEN ParseRadix(SubSeq(l, 3, Len(l)), 16)
    ELSE ParseRadix(l, 10)

ValidLiteral(k, l) ==
    /\ k \in ScalarKinds
    /\ IF k = "str" /\ HasHexPrefix(l)
       THEN Len(l) > 2 /\ AllDigits(SubSeq(l, 3, Len(l)), 16)
       ELSE Len(l) > 0 /\ AllDigits(l, 10)

\* Field Element construction: the reduced representative.
FeltFromLiteral(k, l) == LiteralValue(k, l) % PRIME

\* ------------------------------------------------------ Typed Vector Decoder

DecodeOk(fs) == [ok |-> TRUE, err |-> "none", felts |-> fs]

DecodeErr(e) == [ok |-> FALSE, err |-> e, felts |-> <<>>]

RECURSIVE Decode(_), DecodeItems(_)
\* A variant that emits a nested array's length before its elements.
Decode_LengthPrefixed(v) ==
    IF v.kind = "arr" THEN
        LET r == DecodeItems(v.items) IN
        IF r.ok THEN DecodeOk(<<Len(v.items) % PRIME>> \o r.felts) ELSE r
    ELSE IF v.kind \in ScalarKinds /\ ValidLiteral(v.kind, v.lit)
    THEN DecodeOk(<<FeltFromLiteral(v.kind, v.lit)>>)
    ELSE DecodeErr("UnsupportedShape")

\* One JSON value: an array is decoded element by element and its elements
\* are spliced into the result; a number or string becomes one field
\* element; any other shape fails.
Decode(v) ==
    IF v.kind = "arr" THEN DecodeItems(v.items)
    ELSE IF v.kind \in ScalarKinds THEN
        IF ValidLiteral(v.kind, v.lit)
        THEN DecodeOk(<<FeltFromLiteral(v.kind, v.lit)>>)
        ELSE DecodeErr("MalformedScalar")
    ELSE DecodeErr("UnsupportedShape")

\* The elements of an array, left to right, stopping at the first failure.
DecodeItems(xs) ==
    IF xs = <<>> THEN DecodeOk(<<>>)
    ELSE LET h == Decode(Head(xs)) IN
         IF ~h.ok THEN h
         ELSE LET t == DecodeItems(Tail(xs)) IN
              IF ~t.ok THEN t ELSE DecodeOk(h.felts \o t.felts)

\* ------------------------------------------------------------ serialize.rs

CairoVersion == {"Cairo0", "Cairo1"}

Discriminant == [Cairo0 |-> 0, Cairo1 |-> 1]

VersionFelt_Swapped(value) == IF value = "Cairo0" THEN 1 ELSE 0

VersionFelt(value) == IF value = "Cairo0" THEN 0 ELSE 1

\* The version serialize_proof appends.
SelectedVersion == "Cairo1"

SectionOrder == <<"config", "public_input", "unsent_commitment", "witness">>

SectionNames == {SectionOrder[i] : i \in 1..4}

Chain4_Swapped(config, public_input, unsent_commitment, witness) ==
    config \o unsent_commitment \o public_input \o witness

Chain4(config, public_input, unsent_commitment, witness) ==
    config \o public_input \o unsent_commitment \o witness

Calldata_NoVersion(proof, version) ==
    IF proof = <<>> THEN <<VersionFelt(version)>> ELSE proof

Calldata(proof, version) == proof \o <<VersionFelt(version)>>

RECURSIVE ToStringRadix(_, _)
ToStringRadix(f, radix) ==
    IF f < radix THEN <<HexDigits[f + 1]>>
    ELSE ToStringRadix(f \div radix, radix) \o <<HexDigits[(f % radix) + 1]>>

ToString_Hex(f) == ToStringRadix(f, 16)

ToString(f) == ToStringRadix(f, 10)

RECURSIVE Join_Trailing(_, _)
Join_Trailing(tokens, sep) ==
    IF tokens = <<>> THEN <<>>
    ELSE tokens[1] \o sep \o Join_Trailing(Tail(tokens), sep)

RECURSIVE Join(_, _)
Join(tokens, sep) ==
    IF tokens = <<>> THEN <<>>
    ELSE IF Len(tokens) = 1 THEN tokens[1]
    ELSE tokens[1] \o sep \o Join(Tail(tokens), sep)

CalldataString(calldata) ==
    Join([i \in 1..Len(calldata) |-> ToString(calldata[i])], <<" ">>)

\* ------------------------------------------------------- proof documents

\* The scalar and non-scalar leaves the proof documents are built from: a
\* JSON number, a hexadecimal string above the modulus, a boolean, and a
\* string that is no integer literal.
DocLeaves ==
    { Leaf("num", <<"7">>),
      Leaf("str", <<"0", "x", "1", "9">>),
      Leaf("bool", <<"t", "r", "u", "e">>),
      Leaf("str", <<"0", "x">>) }

RECURSIVE TreesOfSize(_, _), ForestsOfSize(_, _)
\* The JSON values over the given leaves with exactly n nodes.
TreesOfSize(n, leaves) ==
    IF n = 1 THEN leaves \cup {Arr(<<>>)}
    ELSE {Arr(f) : f \in ForestsOfSize(n - 1, leaves)}

ForestsOfSize(n, leaves) ==
    IF n = 0 THEN {<<>>}
    ELSE UNION { {<<t>> \o f : t \in TreesOfSize(k, leaves),
                               f \in ForestsOfSize(n - k, leaves)} : k \in 1..n }

\* A section is an array: the arrays with exactly n nodes.
ArraysOfSize(n) == {t \in TreesOfSize(n, DocLeaves) : t.kind = "arr"}

\* How MaxDocNodes nodes or fewer can be shared out among the four sections.
SizeSplits ==
    {s \in [1..4 -> 1..MaxDocNodes] : s[1] + s[2] + s[3] + s[4] <= MaxDocNodes}

\* The four sections of a proof document, in SectionOrder.
Docs ==
    UNION { {<<a, b, c, d>> : a \in ArraysOfSize(s[1]), b \in ArraysOfSize(s[2]),
                              c \in ArraysOfSize(s[3]), d \in ArraysOfSize(s[4])}
            : s \in SizeSplits }

\* The proof file is unreadable, or is no proof container, or holds a proof.
ProofFiles ==
    { [kind |-> "unreadable", sections |-> <<>>],
      [kind |-> "garbage", sections |-> <<>>] }
    \cup {[kind |-> "doc", sections |-> d] : d \in Docs}

Absent == [exists |-> FALSE, text |-> <<>>]

File(t) == [exists |-> TRUE, text |-> t]

\* ---------------------------------------------------------------- state

VARIABLES
    input,            \* the file at args.proof
    dest,             \* the file at args.output
    destBefore,       \* dest as it was when serialize_proof was called
    pc,               \* position inside serialize_proof
    parsed,           \* the parsed proof's four sections, <<>> before parsing
    decoded,          \* the sections decoded so far, in SectionOrder
    calldata,         \* the chained field elements
    calldata_string,  \* the rendered text
    result,           \* "none" while running, then Ok or the error returned
    literal,          \* SpecScalar: the scalar under conversion
    felt,             \* SpecScalar: its field element
    rendered,         \* SpecScalar: the element's text
    spc,              \* SpecScalar: position
    bpc,              \* SpecBuild: position inside main
    platform,         \* SpecBuild: whether DISTS has the host's (OS, ARCH)
    files,            \* SpecBuild: the download directory's entry per file name
    tar,              \* SpecBuild: the downloaded archive in the download directory
    staged,           \* SpecBuild: the unpacked directory inside the download directory
    exec,             \* SpecBuild: the file names whose mode is 0o755
    corelib,          \* SpecBuild: whether the corelib directory exists
    runs              \* SpecBuild: build-script runs started

serializeVars ==
    <<input, dest, destBefore, pc, parsed, decoded, calldata, calldata_string, result>>

scalarVars == <<literal, felt, rendered, spc>>

buildVars == <<bpc, platform, files, tar, staged, exec, corelib, runs>>

InitSerialize ==
    /\ input \in ProofFiles
    /\ dest \in {Absent, File(<<"0">>)}
    /\ destBefore = dest
    /\ pc = "read"
    /\ parsed = <<>>
    /\ decoded = <<>>
    /\ calldata = <<>>
    /\ calldata_string = <<>>
    /\ result = "none"

IdleSerialize ==
    /\ input = [kind |-> "unreadable", sections |-> <<>>]
    /\ dest = Absent
    /\ destBefore = Absent
    /\ pc = "idle"
    /\ parsed = <<>>
    /\ decoded = <<>>
    /\ calldata = <<>>
    /\ calldata_string = <<>>
    /\ result = "none"

\* -------------------------------------------------------- serialize_proof

Fail(e) ==
    /\ result' = e
    /\ pc' = "done"

\* std::fs::read_to_string(proof_file)?
ReadProofFile ==
    /\ pc = "read"
    /\ \/ /\ input.kind = "unreadable"
          /\ Fail("IoError")
       \/ /\ input.kind # "unreadable"
          /\ pc' = "parse"
          /\ result' = result
    /\ UNCHANGED <<input, dest, destBefore, parsed, decoded, calldata, calldata_string>>
    /\ UNCHANGED <<scalarVars, buildVars>>

\* parse(proof_file_content)?
ParseProof ==
    /\ pc = "parse"
    /\ \/ /\ input.kind = "garbage"
          /\ Fail("ProofParseError")
          /\ parsed' = parsed
       \/ /\ input.kind = "doc"
          /\ parsed' = input.sections
          /\ pc' = "decode"
          /\ result' = result
    /\ UNCHANGED <<input, dest, destBefore, decoded, calldata, calldata_string>>
    /\ UNCHANGED <<scalarVars, buildVars>>

\* A variant that flushes what was decoded so far when a section fails.
DecodeSection_WritesPartial ==
    /\ pc = "decode"
    /\ LET r == Decode(parsed[Len(decoded) + 1]) IN
       \/ /\ ~r.ok
          /\ Fail(r.err)
          /\ dest' = File(<<>>)
          /\ decoded' = decoded
       \/ /\ r.ok
          /\ decoded' = Append(decoded, r.felts)
          /\ pc' = IF Len(decoded) = 3 THEN "chain" ELSE "decode"
          /\ result' = result
          /\ dest' = dest
    /\ UNCHANGED <<input, destBefore, parsed, calldata, calldata_string>>
    /\ UNCHANGED <<scalarVars, buildVars>>

\* A variant that takes a section that fails to decode as empty.
DecodeSection_DefaultsOnError ==
    /\ pc = "decode"
    /\ LET r == Decode(parsed[Len(decoded) + 1]) IN
       /\ decoded' = Append(decoded, r.felts)
       /\ pc' = IF Len(decoded) = 3 THEN "chain" ELSE "decode"
       /\ result' = result
    /\ dest' = dest
    /\ UNCHANGED <<input, destBefore, parsed, calldata, calldata_string>>
    /\ UNCHANGED <<scalarVars, buildVars>>

\* serde_json::from_str(&parsed.<section>.to_string())?  for the next of the
\* four sections
DecodeSection ==
    /\ pc = "decode"
    /\ LET r == Decode(parsed[Len(decoded) + 1]) IN
       \/ /\ ~r.ok
          /\ Fail(r.err)
          /\ decoded' = decoded
       \/ /\ r.ok
          /\ decoded' = Append(decoded, r.felts)
          /\ pc' = IF Len(decoded) = 3 THEN "chain" ELSE "decode"
          /\ result' = result
    /\ dest' = dest
    /\ UNCHANGED <<input, destBefore, parsed, calldata, calldata_string>>
    /\ UNCHANGED <<scalarVars, buildVars>>

\* the two chain! calls and the map/collect/join
Linearize ==
    /\ pc = "chain"
    /\ calldata' = Calldata(Chain4(decoded[1], decoded[2], decoded[3], decoded[4]),
                            SelectedVersion)
    /\ calldata_string' = CalldataString(calldata')
    /\ pc' = "write"
    /\ UNCHANGED <<input, dest, destBefore, parsed, decoded, result>>
    /\ UNCHANGED <<scalarVars, buildVars>>

\* fs::write(args.output.clone(), calldata_string)?
WriteOutput ==
    /\ pc = "write"
    /\ \/ /\ dest' = File(calldata_string)
          /\ result' = "Ok"
       \/ /\ dest' \in {dest, File(<<>>)}
          /\ result' = "OutputWriteError"
    /\ pc' = "done"
    /\ UNCHANGED <<input, destBefore, parsed, decoded, calldata, calldata_string>>
    /\ UNCHANGED <<scalarVars, buildVars>>

\* ------------------------------------------------------------ scalar path

Chars == {HexDigits[i] : i \in 1..16}

Strings(S, lo, hi) == UNION {[1..n -> S] : n \in lo..hi}

\* JSON numbers, and strings with and without the "0x" prefix; a string
\* whose digits do not fit its base, or that has none, is no integer literal.
Literals ==
    {Leaf("num", l) : l \in Strings({DecDigits[i] : i \in 1..10}, 1, MaxLitLen)}
    \cup {Leaf("str", l) : l \in Strings(Chars, 0, MaxLitLen)}
    \cup {Leaf("str", <<"0", "x">> \o l) : l \in Strings(Chars, 0, MaxLitLen)}

InitScalar ==
    /\ literal \in Literals
    /\ felt = 0
    /\ rendered = <<>>
    /\ spc = "decode"

IdleScalar ==
    /\ literal = Leaf("num", <<"0">>)
    /\ felt = 0
    /\ rendered = <<>>
    /\ spc = "idle"

\* Field Element construction from one scalar
DecodeScalar ==
    /\ spc = "decode"
    /\ LET r == Decode(literal) IN
       \/ /\ r.ok
          /\ felt' = r.felts[1]
          /\ spc' = "render"
       \/ /\ ~r.ok
          /\ felt' = felt
          /\ spc' = "malformed"
    /\ UNCHANGED <<literal, rendered>>
    /\ UNCHANGED <<serializeVars, buildVars>>

\* |f| f.to_string()
RenderScalar ==
    /\ spc = "render"
    /\ rendered' = ToString(felt)
    /\ spc' = "done"
    /\ UNCHANGED <<literal, felt>>
    /\ UNCHANGED <<serializeVars, buildVars>>

\* ---------------------------------------------------------------- build.rs

FileNames == 1..NumFiles

\* A file's content is "good" when its sha256 digest is the pinned sum at
\* the file's index, and "bad" otherwise.
Archives == [FileNames -> {"good", "bad", "missing"}]

NoArchive == [f \in FileNames |-> "missing"]

InitBuild ==
    /\ bpc = "start"
    /\ platform \in {"supported", "unsupported"}
    /\ files = [f \in FileNames |-> "absent"]
    /\ tar = [state |-> "none", content |-> NoArchive]
    /\ staged = [exists |-> FALSE, content |-> NoArchive]
    /\ exec = {}
    /\ corelib = FALSE
    /\ runs = 1

IdleBuild ==
    /\ bpc = "idle"
    /\ platform = "supported"
    /\ files = [f \in FileNames |-> "absent"]
    /\ tar = [state |-> "none", content |-> NoArchive]
    /\ staged = [exists |-> FALSE, content |-> NoArchive]
    /\ exec = {}
    /\ corelib = FALSE
    /\ runs = 1

AllExist == \A f \in FileNames : files[f] # "absent"

\* download_executables up to the DISTS lookup: the directory is created,
\* and the function returns at once when every file name exists.
CheckExisting ==
    /\ bpc = "start"
    /\ \/ /\ AllExist
          /\ bpc' = "returned"
       \/ /\ ~AllExist
          /\ platform = "supported"
          /\ bpc' = "download"
       \/ /\ ~AllExist
          /\ platform = "unsupported"
          /\ bpc' = "panicked"
    /\ UNCHANGED <<platform, files, tar, staged, exec, corelib, runs>>
    /\ UNCHANGED <<serializeVars, scalarVars>>

\* download_from_url: the request fails, or writing the archive fails part
\* way, or the response body (whatever the server sent) is written to the
\* archive path.
DownloadFromUrl ==
    /\ bpc = "download"
    /\ \/ /\ bpc' = "panicked"
          /\ tar' \in {tar, [state |-> "corrupt", content |-> NoArchive]}
       \/ /\ \E a \in Archives : tar' = [state |-> "ok", content |-> a]
          /\ bpc' = "unzip"
       \/ /\ tar' = [state |-> "corrupt", content |-> NoArchive]
          /\ bpc' = "unzip"
    /\ UNCHANGED <<platform, files, staged, exec, corelib, runs>>
    /\ UNCHANGED <<serializeVars, scalarVars>>

\* unzip_file: the archive's entries are written over the unpacked directory.
UnzipFile ==
    /\ bpc = "unzip"
    /\ \/ /\ tar.state = "corrupt"
          /\ bpc' = "panicked"
          /\ staged' = staged
       \/ /\ tar.state = "ok"
          /\ staged' = [exists |-> TRUE,
                        content |-> [f \in FileNames |->
                            IF tar.content[f] # "missing" THEN tar.content[f]
                            ELSE staged.content[f]]]
          /\ bpc' = "move"
    /\ UNCHANGED <<platform, files, tar, exec, corelib, runs>>
    /\ UNCHANGED <<serializeVars, scalarVars>>

\* The first file name, in order, missing from the unpacked directory
\* (NumFiles + 1 when none is).
FirstMissing ==
    IF \E f \in FileNames : staged.content[f] = "missing"
    THEN CHOOSE f \in FileNames :
            /\ staged.content[f] = "missing"
            /\ \A g \in FileNames : g < f => staged.content[g] # "missing"
    ELSE NumFiles + 1

\* move_files: each file is renamed into the download directory in turn;
\* the loop panics at the first one missing; then the directory is removed.
MoveFiles ==
    /\ bpc = "move"
    /\ files' = [f \in FileNames |->
                    IF f < FirstMissing THEN staged.content[f] ELSE files[f]]
    /\ exec' = {f \in exec : f >= FirstMissing}
    /\ \/ /\ FirstMissing <= NumFiles
          /\ staged' = [staged EXCEPT !.content = [f \in FileNames |->
                            IF f < FirstMissing THEN "missing" ELSE staged.content[f]]]
          /\ bpc' = "panicked"
       \/ /\ FirstMissing > NumFiles
          /\ staged' = [exists |-> FALSE, content |-> NoArchive]
          /\ bpc' = "rmtar"
    /\ UNCHANGED <<platform, tar, corelib, runs>>
    /\ UNCHANGED <<serializeVars, scalarVars>>

\* remove_file(&download_file_path)
RemoveTar ==
    /\ bpc = "rmtar"
    /\ tar' = [state |-> "none", content |-> NoArchive]
    /\ bpc' = "validate"
    /\ UNCHANGED <<platform, files, staged, exec, corelib, runs>>
    /\ UNCHANGED <<serializeVars, scalarVars>>

\* Whether the download directory holds an entry that is no file name.
UnexpectedEntry == tar.state # "none" \/ staged.exists

\* validate_unpacked_files: panics on an entry that is no file name and on
\* a file whose digest is not the pinned sum.
ValidateUnpackedFiles ==
    /\ bpc = "validate"
    /\ \/ /\ UnexpectedEntry \/ \E f \in FileNames : files[f] = "bad"
          /\ bpc' = "panicked"
       \/ /\ ~UnexpectedEntry
          /\ \A f \in FileNames : files[f] # "bad"
          /\ bpc' = "chmod"
    /\ UNCHANGED <<platform, files, tar, staged, exec, corelib, runs>>
    /\ UNCHANGED <<serializeVars, scalarVars>>

\* set_execute_permissions
SetExecutePermissions ==
    /\ bpc = "chmod"
    /\ \/ /\ AllExist
          /\ exec' = FileNames
          /\ bpc' = "returned"
       \/ /\ ~AllExist
          /\ exec' = exec
          /\ bpc' = "panicked"
    /\ UNCHANGED <<platform, files, tar, staged, corelib, runs>>
    /\ UNCHANGED <<serializeVars, scalarVars>>

\* download_corelib_repo, the rest of main
DownloadCorelibRepo ==
    /\ bpc = "returned"
    /\ \/ /\ corelib' = TRUE
          /\ bpc' = "exit"
       \/ /\ ~corelib
          /\ corelib' = corelib
          /\ bpc' = "panicked"
    /\ UNCHANGED <<platform, files, tar, staged, exec, runs>>
    /\ UNCHANGED <<serializeVars, scalarVars>>

\* The build script is run again.
NewRun ==
    /\ bpc \in {"exit", "panicked"}
    /\ runs < MaxRuns
    /\ runs' = runs + 1
    /\ bpc' = "start"
    /\ UNCHANGED <<platform, files, tar, staged, exec, corelib>>
    /\ UNCHANGED <<serializeVars, scalarVars>>

\* --------------------------------------------------------- specifications

vars == <<serializeVars, scalarVars, buildVars>>

Init == InitSerialize /\ IdleScalar /\ IdleBuild

Next ==
    \/ ReadProofFile
    \/ ParseProof
    \/ DecodeSection
    \/ Linearize
    \/ WriteOutput

Spec == Init /\ [][Next]_vars

InitOfScalar == IdleSerialize /\ InitScalar /\ IdleBuild

NextScalar ==
    \/ DecodeScalar
    \/ RenderScalar

SpecScalar == InitOfScalar /\ [][NextScalar]_vars

InitOfBuild == IdleSerialize /\ IdleScalar /\ InitBuild

NextBuild ==
    \/ CheckExisting
    \/ DownloadFromUrl
    \/ UnzipFile
    \/ MoveFiles
    \/ RemoveTar
    \/ ValidateUnpackedFiles
    \/ SetExecutePermissions
    \/ DownloadCorelibRepo
    \/ NewRun

SpecBuild == InitOfBuild /\ [][NextBuild]_vars

\* ------------------------------------------------- reference definitions

\* A JSON value written out as brackets and leaves, in reading order.
RECURSIVE Tokens(_), TokensOfItems(_)
Tokens(v) ==
    IF v.kind = "arr"
    THEN <<[t |-> "open", kind |-> "arr", lit |-> <<>>]>>
         \o TokensOfItems(v.items)
         \o <<[t |-> "close", kind |-> "arr", lit |-> <<>>]>>
    ELSE <<[t |-> "leaf", kind |-> v.kind, lit |-> v.lit]>>

TokensOfItems(xs) ==
    IF xs = <<>> THEN <<>> ELSE Tokens(Head(xs)) \o TokensOfItems(Tail(xs))

IsLeafToken(x) == x.t = "leaf"

\* The leaves of a JSON value in encounter order, brackets dropped.
LeavesInOrder(v) == SelectSeq(Tokens(v), IsLeafToken)

IsScalarLeaf(x) == ValidLiteral(x.kind, x.lit)

WellFormed(v) ==
    \A i \in 1..Len(LeavesInOrder(v)) : IsScalarLeaf(LeavesInOrder(v)[i])

LeafFelts(v) ==
    [i \in 1..Len(LeavesInOrder(v)) |->
        LiteralValue(LeavesInOrder(v)[i].kind, LeavesInOrder(v)[i].lit) % PRIME]

\* The array holding a value's leaves and no inner bracket.
FlatArray(v) ==
    Arr([i \in 1..Len(LeavesInOrder(v)) |->
            Leaf(LeavesInOrder(v)[i].kind, LeavesInOrder(v)[i].lit)])

DocLeavesInOrder(d) ==
    LeavesInOrder(d[1]) \o LeavesInOrder(d[2]) \o LeavesInOrder(d[3]) \o LeavesInOrder(d[4])

\* The first leaf of the document, in decoding order, that is no valid scalar.
FirstFault(d) ==
    LET ls == DocLeavesInOrder(d)
        i == CHOOSE k \in 1..Len(ls) :
                /\ ~IsScalarLeaf(ls[k])
                /\ \A j \in 1..(k - 1) : IsScalarLeaf(ls[j])
    IN ls[i]

HasUnsupportedShape(d) ==
    \E k \in 1..Len(DocLeavesInOrder(d)) : DocLeavesInOrder(d)[k].kind \notin ScalarKinds

HasNestedArray(v) == \E k \in 1..Len(v.items) : v.items[k].kind = "arr"

RECURSIVE SplitText(_)
\* A text cut at every space.
SplitText(t) ==
    IF \E i \in 1..Len(t) : t[i] = " "
    THEN LET i == CHOOSE k \in 1..Len(t) :
                    t[k] = " " /\ \A j \in 1..(k - 1) : t[j] # " "
         IN <<SubSeq(t, 1, i - 1)>> \o SplitText(SubSeq(t, i + 1, Len(t)))
    ELSE <<t>>

CountSpaces(t) == Cardinality({i \in 1..Len(t) : t[i] = " "})

\* A decimal numeral: digits only, and no leading zero unless it is "0".
CanonicalDecimal(t) ==
    /\ Len(t) >= 1
    /\ AllDigits(t, 10)
    /\ (Len(t) > 1 => t[1] # "0")

DecodeFailures == {"MalformedScalar", "UnsupportedShape"}

EarlyFailures == {"IoError", "ProofParseError"} \cup DecodeFailures

Chained == result \in {"Ok", "OutputWriteError"} \/ pc = "write"

\* ------------------------------------------------------------------ claims

\* C1: for a well-formed proof document the calldata is the decoded config
\* elements, then public_input, then unsent_commitment, then witness, then
\* the version element: nothing dropped, duplicated or reordered, and its
\* length is the four section lengths plus one; a well-formed document
\* never fails in decoding.
C1_CalldataIsOrderedConcatenation ==
    /\ Chained =>
        /\ calldata = LeafFelts(parsed[1]) \o LeafFelts(parsed[2])
                      \o LeafFelts(parsed[3]) \o LeafFelts(parsed[4])
                      \o <<Discriminant[SelectedVersion]>>
        /\ Len(calldata) = Len(LeavesInOrder(parsed[1])) + Len(LeavesInOrder(parsed[2]))
                           + Len(LeavesInOrder(parsed[3])) + Len(LeavesInOrder(parsed[4])) + 1
    /\ (pc = "done" /\ input.kind = "doc" /\ \A i \in 1..4 : WellFormed(input.sections[i]))
        => Chained

C1_Witness ==
    /\ result = "Ok"
    /\ Len(decoded[1]) >= 1
    /\ Len(decoded[2]) >= 1
    /\ Len(decoded[3]) >= 1
    /\ decoded[1] # decoded[2]
    /\ decoded[2] # decoded[3]

\* C2: in every output written by a successful serialization the version
\* tag is the last element and is exactly one appended element: the output
\* holds one token more than the four sections hold elements, and is the
\* version element alone when all four sections are empty.
C2_VersionIsLastAndSingle ==
    result = "Ok" =>
        LET toks == SplitText(dest.text)
            n == Len(decoded[1]) + Len(decoded[2]) + Len(decoded[3]) + Len(decoded[4])
        IN /\ dest.exists
           /\ Len(toks) = n + 1
           /\ toks[Len(toks)] = ToString(VersionFelt(SelectedVersion))
           /\ SubSeq(toks, 1, n)
                = [i \in 1..n |->
                    ToString((decoded[1] \o decoded[2] \o decoded[3] \o decoded[4])[i])]
           /\ (n = 0 => dest.text = ToString(VersionFelt(SelectedVersion)))

C2_Witness ==
    /\ result = "Ok"
    /\ \A i \in 1..4 : decoded[i] = <<>>
    /\ HasNestedArray(parsed[2])
    /\ dest = File(<<"1">>)

\* C3: the trailing integer of the output is the numeric value of the
\* version selected for the call (0 for Cairo0, 1 for Cairo1), whatever the
\* proof document holds.
C3_TrailingIsSelectedVersion ==
    /\ \A v \in CairoVersion : VersionFelt(v) = Discriminant[v]
    /\ VersionFelt("Cairo0") = 0
    /\ VersionFelt("Cairo1") = 1
    /\ Chained => calldata[Len(calldata)] = Discriminant[SelectedVersion]
    /\ result = "Ok" =>
        LET toks == SplitText(dest.text)
        IN toks[Len(toks)] = <<DecDigits[Discriminant[SelectedVersion] + 1]>>

C3_Witness ==
    /\ result = "Ok"
    /\ SelectedVersion = "Cairo1"
    /\ Len(calldata) >= 3
    /\ \A i \in 1..(Len(calldata) - 1) : calldata[i] # 1
    /\ dest.text[Len(dest.text)] = "1"

\* C4: when reading the proof file, parsing it, or decoding any section
\* fails, serialize_proof returns that error and the destination is exactly
\* as before the call; the destination changes only after all four sections
\* have been decoded.
C4_NoOutputOnEarlyFailure ==
    /\ pc # "done" => dest = destBefore /\ result = "none"
    /\ result \in EarlyFailures => dest = destBefore
    /\ dest # destBefore => Len(decoded) = 4
    /\ pc = "done" =>
        /\ input.kind = "unreadable" => result = "IoError"
        /\ input.kind = "garbage" => result = "ProofParseError"
        /\ (input.kind = "doc" /\ \E i \in 1..4 : ~WellFormed(input.sections[i]))
            => result \in DecodeFailures

C4_Witness ==
    /\ pc = "done"
    /\ result \in DecodeFailures
    /\ Len(decoded) = 3
    /\ decoded[1] # <<>>
    /\ destBefore.exists
    /\ dest = destBefore

\* C6: decoding a section flattens nested arrays depth-first, left to
\* right: the decoded sequence is the sequence of the tree's scalar leaves
\* in encounter order, so trees with the same leaves in the same order
\* decode alike whatever their brackets.
C6_DecodeFlattensDepthFirst ==
    /\ \A i \in 1..Len(decoded) :
        /\ decoded[i] = LeafFelts(parsed[i])
        /\ decoded[i] = Decode(FlatArray(parsed[i])).felts
    /\ \A i, j \in 1..Len(decoded) :
        LeavesInOrder(parsed[i]) = LeavesInOrder(parsed[j]) => decoded[i] = decoded[j]

C6_Witness ==
    \E i \in 1..Len(decoded) :
        /\ Len(decoded[i]) >= 2
        /\ decoded[i][1] # decoded[i][2]
        /\ HasNestedArray(parsed[i])
        /\ FlatArray(parsed[i]) # parsed[i]

\* C7, as stated: a section holding, at any depth, a value that is neither
\* an array nor a number or string makes decoding fail with UnsupportedShape,
\* and no output is produced.
C7_Original_AlwaysUnsupportedShape ==
    (pc = "done" /\ input.kind = "doc" /\ HasUnsupportedShape(input.sections))
        => result = "UnsupportedShape" /\ dest = destBefore

\* C7, amended: such a document always fails in decoding and leaves the
\* destination untouched and no calldata built; the error is UnsupportedShape
\* exactly when the first undecodable leaf in decoding order has an
\* unsupported shape, and MalformedScalar when a malformed scalar comes first.
C7_UnsupportedShapeFailsDecoding ==
    (pc = "done" /\ input.kind = "doc" /\ HasUnsupportedShape(input.sections))
        => /\ result \in DecodeFailures
           /\ dest = destBefore
           /\ calldata = <<>>
           /\ calldata_string = <<>>
           /\ result = "UnsupportedShape"
                <=> FirstFault(input.sections).kind \notin ScalarKinds

C7_Witness ==
    /\ pc = "done"
    /\ result = "UnsupportedShape"
    /\ Len(decoded) = 3
    /\ decoded[1] # <<>>
    /\ HasNestedArray(parsed[4])
    /\ dest = destBefore

\* C8: the rendered text is the canonical decimal strings of the calldata
\* elements in calldata order, one space between neighbours and none at
\* either end: n tokens and n - 1 spaces for n elements.
C8_SpaceSeparatedDecimalTokens ==
    /\ Chained =>
        LET n == Len(calldata)
            toks == SplitText(calldata_string)
        IN /\ n >= 1
           /\ CountSpaces(calldata_string) = n - 1
           /\ Len(toks) = n
           /\ \A i \in 1..n :
                /\ CanonicalDecimal(toks[i])
                /\ ParseRadix(toks[i], 10) = calldata[i]
    /\ result = "Ok" => dest = File(calldata_string)

C8_Witness ==
    /\ result = "Ok"
    /\ Len(calldata) >= 4
    /\ \E i \in 1..Len(calldata) : calldata[i] >= 10
    /\ Len(dest.text) > 2 * Len(calldata) - 1

\* C9: for every valid integer literal (a decimal or hexadecimal string, or
\* a number) the element is held in [0, PRIME) and its text is the canonical
\* decimal string of the literal's value modulo PRIME.
C9_RenderedIsCanonicalReduced ==
    /\ spc \in {"render", "done"} => felt \in 0..(PRIME - 1)
    /\ spc = "malformed" => ~ValidLiteral(literal.kind, literal.lit)
    /\ spc \in {"render", "done"} => ValidLiteral(literal.kind, literal.lit)
    /\ spc = "done" =>
        /\ CanonicalDecimal(rendered)
        /\ ParseRadix(rendered, 10) < PRIME
        /\ (LiteralValue(literal.kind, literal.lit) - ParseRadix(rendered, 10)) % PRIME = 0

C9_Witness ==
    /\ spc = "done"
    /\ HasHexPrefix(literal.lit)
    /\ LiteralValue(literal.kind, literal.lit) >= 2 * PRIME
    /\ Len(rendered) = 2

\* C10: whenever download_executables returns normally, every file named in
\* config.file_names is in the download directory with the pinned sha256
\* sum, in every run of the build script.
C10_ReturnedImpliesValidated ==
    bpc = "returned" => \A f \in FileNames : files[f] = "good"

=============================================================================
